---- MODULE Spec2Model ----
(***************************************************************************)
(* TMC-API, TMC2240 register layer: the bit-field codec                    *)
(* (tmc2240_fieldExtract / tmc2240_fieldUpdate), the register access port  *)
(* (tmc2240_readRegister / tmc2240_writeRegister / tmc2240_fieldRead /     *)
(* tmc2240_fieldWrite) and the shadow-register cache (tmc2240_cache, the   *)
(* dirty bits, the restore pass), over src/tmc/ic/TMC2240/TMC2240.h.       *)
(*                                                                         *)
(* A uint32_t is the set of the positions of its 1 bits (a subset of       *)
(* 0..31): the C operators &, |, ^, ~, <<, >> and the 32-bit subtraction   *)
(* are then exact, with the bits shifted out at either end dropped.        *)
(***************************************************************************)
EXTENDS Integers, Sequences, FiniteSets, TLC

(***************************************************************************)
(* 32-bit words                                                            *)
(***************************************************************************)
WordBits == 32

BitPos == 0 .. (WordBits - 1)

\* The bits of a 16-bit literal, and the word 0xHHHHLLLL written W32(\HHHHH, \HLLLL).
Bits16(n) == {b \in 0 .. 15 : (n \div 2^b) % 2 = 1}

W32(hi, lo) == Bits16(lo) \cup {b + 16 : b \in Bits16(hi)}

\* The bits of a register-permission byte (uint8_t).
Bits8(n) == {b \in 0 .. 7 : (n \div 2^b) % 2 = 1}

BitAnd(a, b) == a \cap b

BitOr(a, b) == a \cup b

BitXor(a, b) == (a \ b) \cup (b \ a)

BitNot(a) == BitPos \ a

\* a << s and a >> s on uint32_t, for a shift count 0..31.
Shl(a, s) == {b + s : b \in a} \cap BitPos

Shr(a, s) == {b - s : b \in {x \in a : x >= s}}

\* a - b on uint32_t (modulo 2^32), by ripple borrow from bit 0.
RECURSIVE BorrowInto(_, _, _)
BorrowInto(a, b, i) ==
    IF i = 0 THEN FALSE
    ELSE LET j == i - 1
             bw == BorrowInto(a, b, j)
         IN  \/ (j \notin a) /\ (j \in b)
             \/ ((j \in a) <=> (j \in b)) /\ bw

Sub32(a, b) ==
    {i \in BitPos : ((i \in a) # (i \in b)) # BorrowInto(a, b, i)}

\* The value of a word read as int32_t (two's complement).
RECURSIVE SumBits(_)
SumBits(s) == IF s = {} THEN 0
              ELSE LET b == CHOOSE x \in s : TRUE
                   IN  2^b + SumBits(s \ {b})

AsInt32(w) == IF 31 \in w THEN (SumBits(w \ {31}) - 2^30) - 2^30
              ELSE SumBits(w)

(***************************************************************************)
(* The bit-field codec                                                     *)
(***************************************************************************)
\* RegisterField: mask, shift, address, isSigned.
RegField(m, s, a, sg) == [mask |-> m, shift |-> s, address |-> a, isSigned |-> sg]

tmc2240_fieldExtract_Unsigned(data, field) ==
    Shr(BitAnd(data, field.mask), field.shift)

tmc2240_fieldExtract_NoShift(data, field) ==
    LET value == BitAnd(data, field.mask)
    IN  IF field.isSigned
        THEN LET baseMask == Shr(field.mask, field.shift)
                 signMask == BitAnd(baseMask, Shr(BitNot(baseMask), 1))
             IN  Sub32(BitXor(value, signMask), signMask)
        ELSE value

tmc2240_fieldExtract_LowSignMask(data, field) ==
    LET value == Shr(BitAnd(data, field.mask), field.shift)
    IN  IF field.isSigned
        THEN LET baseMask == Shr(field.mask, field.shift)
                 signMask == BitAnd(baseMask, BitNot(Shl(baseMask, 1)))
             IN  Sub32(BitXor(value, signMask), signMask)
        ELSE value

tmc2240_fieldExtract(data, field) ==
    LET value == Shr(BitAnd(data, field.mask), field.shift)
    IN  IF field.isSigned
        THEN LET baseMask == Shr(field.mask, field.shift)
                 signMask == BitAnd(baseMask, Shr(BitNot(baseMask), 1))
             IN  Sub32(BitXor(value, signMask), signMask)
        ELSE value

\* extract as the specification words it: the sign mask is
\* (mask>>shift) & ~((mask>>shift)>>1).
extract(registerValue, field) ==
    LET value == Shr(BitAnd(registerValue, field.mask), field.shift)
    IN  IF field.isSigned
        THEN LET signMask == BitAnd(Shr(field.mask, field.shift),
                                    BitNot(Shr(Shr(field.mask, field.shift), 1)))
             IN  Sub32(BitXor(value, signMask), signMask)
        ELSE value

tmc2240_fieldUpdate_NoClear(data, field, value) ==
    BitOr(data, BitAnd(Shl(value, field.shift), field.mask))

tmc2240_fieldUpdate_FieldOnly(data, field, value) ==
    BitAnd(Shl(value, field.shift), field.mask)

tmc2240_fieldUpdate_NoMask(data, field, value) ==
    BitOr(BitAnd(data, BitNot(field.mask)), Shl(value, field.shift))

tmc2240_fieldUpdate(data, field, value) ==
    BitOr(BitAnd(data, BitNot(field.mask)),
          BitAnd(Shl(value, field.shift), field.mask))

(***************************************************************************)
(* The static tables of TMC2240.h                                          *)
(***************************************************************************)
TMC2240_REGISTER_COUNT == 128

\* By default one IC in the cache; the build may define another count
\* (#ifndef TMC2240_IC_CACHE_COUNT).  The model is built for two chips, so
\* that the per-chip partition of the shadow and dirty tables is visible.
TMC2240_IC_CACHE_COUNT == 2

Addresses == 0 .. (TMC2240_REGISTER_COUNT - 1)

ICs == 0 .. (TMC2240_IC_CACHE_COUNT - 1)

TMC2240_ACCESS_DIRTY == \H08

TMC2240_ACCESS_READ == \H01

TMC2240_ACCESS_W_PRESET == \H42

TMC2240_IS_READABLE_Any(x) == x # \H00

TMC2240_IS_READABLE_WriteBit(x) == (Bits8(x) \cap Bits8(\H02)) # {}

TMC2240_IS_READABLE(x) == (Bits8(x) \cap Bits8(TMC2240_ACCESS_READ)) # {}

\* #define N_A 0: the marker of a hardware preset in the default values.
N_A == W32(\H0000, \H0000)

\* Default register values.
R00 == W32(\H0000, \H2108)
R0A == W32(\H0000, \H0020)
R10 == W32(\H0007, \H0A03)
R11 == W32(\H0000, \H000A)
R2B == W32(\H0000, \H0001)
R3A == W32(\H0001, \H0000)
R52 == W32(\H0B92, \H0F25)
R6C == W32(\H1441, \H0153)
R70 == W32(\HC44C, \H001E)

\* The literal 0 of the default value table.
Z == W32(\H0000, \H0000)

\* Register access permissions, entry a + 1 for address a:
\*   0x00 none, 0x01 read, 0x02 write, 0x03 read/write, 0x13 read/write split,
\*   0x23 read/write flag register, 0x42 write with hardware presets on reset.
tmc2240_registerAccess ==
    << \H03, \H23, \H01, \H03, \H03, \H00, \H00, \H00, \H00, \H00, \H03, \H03, \H00, \H00, \H00, \H00,
       \H03, \H03, \H01, \H03, \H03, \H03, \H00, \H00, \H00, \H00, \H00, \H00, \H00, \H00, \H00, \H00,
       \H00, \H00, \H00, \H00, \H00, \H00, \H00, \H00, \H00, \H00, \H00, \H00, \H00, \H03, \H00, \H00,
       \H00, \H00, \H00, \H00, \H00, \H00, \H00, \H00, \H03, \H03, \H03, \H23, \H01, \H00, \H00, \H00,
       \H00, \H00, \H00, \H00, \H00, \H00, \H00, \H00, \H00, \H00, \H00, \H00, \H00, \H00, \H00, \H00,
       \H01, \H01, \H03, \H00, \H00, \H00, \H00, \H00, \H00, \H00, \H00, \H00, \H00, \H00, \H00, \H00,
       \H42, \H42, \H42, \H42, \H42, \H42, \H42, \H42, \H42, \H42, \H01, \H01, \H03, \H03, \H00, \H01,
       \H03, \H01, \H01, \H00, \H03, \H01, \H01, \H00, \H00, \H00, \H00, \H00, \H00, \H00, \H00, \H00 >>

\* Default register values, entry a + 1 for address a.
tmc2240_sampleRegisterPreset ==
    << R00, Z,   Z,   Z,   Z,   Z,   Z,   Z,   Z,   Z,   R0A, Z,   Z,   Z,   Z,   Z,
       R10, R11, Z,   Z,   Z,   Z,   Z,   Z,   Z,   Z,   Z,   R2B, Z,   Z,   Z,   Z,
       Z,   Z,   Z,   Z,   Z,   Z,   Z,   Z,   Z,   Z,   Z,   Z,   Z,   Z,   Z,   Z,
       Z,   Z,   Z,   Z,   Z,   Z,   Z,   Z,   Z,   Z,   R3A, Z,   Z,   Z,   Z,   Z,
       Z,   Z,   Z,   Z,   Z,   Z,   Z,   Z,   Z,   Z,   Z,   Z,   Z,   Z,   Z,   Z,
       Z,   Z,   R52, Z,   Z,   Z,   Z,   Z,   Z,   Z,   Z,   Z,   Z,   Z,   Z,   Z,
       N_A, N_A, N_A, N_A, N_A, N_A, N_A, N_A, N_A, N_A, Z,   Z,   R6C, Z,   Z,   Z,
       R70, Z,   Z,   Z,   Z,   Z,   Z,   Z,   Z,   Z,   Z,   Z,   Z,   Z,   Z,   Z >>

\* Register constants of the 0x42 registers, ascending addresses.
tmc2240_RegisterConstants_Swapped ==
    << [address |-> \H61, value |-> W32(\H4A95, \H54AA)],
       [address |-> \H60, value |-> W32(\HAAAA, \HB554)],
       [address |-> \H62, value |-> W32(\H2449, \H2929)],
       [address |-> \H63, value |-> W32(\H1010, \H4222)],
       [address |-> \H64, value |-> W32(\HFBFF, \HFFFF)],
       [address |-> \H65, value |-> W32(\HB5BB, \H777D)],
       [address |-> \H66, value |-> W32(\H4929, \H5556)],
       [address |-> \H67, value |-> W32(\H0040, \H4222)],
       [address |-> \H68, value |-> W32(\HFFFF, \H8056)],
       [address |-> \H69, value |-> W32(\H00F7, \H0000)] >>

tmc2240_RegisterConstants ==
    << [address |-> \H60, value |-> W32(\HAAAA, \HB554)],
       [address |-> \H61, value |-> W32(\H4A95, \H54AA)],
       [address |-> \H62, value |-> W32(\H2449, \H2929)],
       [address |-> \H63, value |-> W32(\H1010, \H4222)],
       [address |-> \H64, value |-> W32(\HFBFF, \HFFFF)],
       [address |-> \H65, value |-> W32(\HB5BB, \H777D)],
       [address |-> \H66, value |-> W32(\H4929, \H5556)],
       [address |-> \H67, value |-> W32(\H0040, \H4222)],
       [address |-> \H68, value |-> W32(\HFFFF, \H8056)],
       [address |-> \H69, value |-> W32(\H00F7, \H0000)] >>

\* permission(address): the Access-Policy lookup of the cache, the access
\* port and the restore pass.
Permission_PresetAsNone(a) ==
    IF tmc2240_registerAccess[a + 1] = \H42 THEN \H00 ELSE tmc2240_registerAccess[a + 1]

Permission_GconfNone(a) == IF a = 0 THEN \H00 ELSE tmc2240_registerAccess[a + 1]

Permission(a) == tmc2240_registerAccess[a + 1]

\* The constant of address a in tmc2240_RegisterConstants, if it has one.
HasConstant(a) == \E j \in DOMAIN tmc2240_RegisterConstants :
                      tmc2240_RegisterConstants[j].address = a

ConstantOf(a) ==
    tmc2240_RegisterConstants[
        CHOOSE j \in DOMAIN tmc2240_RegisterConstants :
            tmc2240_RegisterConstants[j].address = a].value

(***************************************************************************)
(* Bounds of the model: what the operations draw their inputs from         *)
(***************************************************************************)
\* Application operations per behaviour (the steps of a restore not counted).
MaxOps == 3

\* Addresses the operations are applied to: GCONF (0x03, read/write), IFCNT
\* (0x01, read only), 0x05 (0x00, none), MSLUT[0] (0x42, hardware preset).
Addrs == {\H00, \H02, \H05, \H60}

\* Register values the application writes or fills.
V1 == W32(\H0000, \H2109)

V2 == W32(\HFFFF, \H8001)

Vals == {V1, V2}

\* Fields the application reads and writes: bit 0 of GCONF (the
\* I_SCALE_ANALOG field of the TMC2225 header), and a signed nine-bit field
\* placed in the write-only MSLUT[0].
TMC2225_I_SCALE_ANALOG_FIELD == RegField(W32(\H0000, \H0001), 0, \H00, FALSE)

F_MSLUT == RegField(W32(\H01FF, \H0000), 16, \H60, TRUE)

\* A second field of MSLUT[0], disjoint from F_MSLUT: its low byte.
F_MSLUT_LO == RegField(W32(\H0000, \H00FF), 0, \H60, FALSE)

\* Two fields of one register: IHOLD and IRUN of IHOLD_IRUN (0x10), as the
\* TMC2225 header describes them.
TMC2225_IHOLD_FIELD == RegField(W32(\H0000, \H001F), 0, \H10, FALSE)

TMC2225_IRUN_FIELD == RegField(W32(\H0000, \H1F00), 8, \H10, FALSE)

\* VACTUAL (0x22) of the TMC2225 header: a signed field of 24 bits.
TMC2225_VACTUAL_FIELD == RegField(W32(\H00FF, \HFFFF), 0, \H22, TRUE)

\* The calls the application makes.  Chip 0 is exercised on every address of
\* Addrs; chip 1 on its MSLUT[0] and, by field writes, on its IHOLD_IRUN.  A transfer fails (ok = FALSE) on a
\* write to GCONF or MSLUT[0] of chip 0.
ReadCalls == ({0} \X Addrs) \cup {<<1, \H60>>}

CacheReadCalls == {0} \X Addrs

WriteCalls == ({0} \X Addrs \X Vals \X {TRUE})
              \cup ({0} \X {\H00, \H60} \X {V1} \X {FALSE})
              \cup {<<1, \H60, V1, TRUE>>}

CacheWriteCalls == {<<0, \H60, V2>>}

FillCalls == ({0} \X {\H60} \X Vals) \cup {<<0, \H02, V1>>}

FieldReadCalls == {0} \X {TMC2225_I_SCALE_ANALOG_FIELD, F_MSLUT, F_MSLUT_LO}

FieldWriteCalls == {<<0, TMC2225_I_SCALE_ANALOG_FIELD, W32(\H0000, \H0001), TRUE>>,
                    <<0, F_MSLUT, W32(\H0000, \H01FE), TRUE>>,
                    <<0, F_MSLUT, W32(\H0000, \H0003), FALSE>>,
                    <<0, F_MSLUT_LO, W32(\H0000, \H0155), TRUE>>,
                    <<1, TMC2225_IRUN_FIELD, W32(\H0000, \H001F), TRUE>>,
                    <<1, TMC2225_IHOLD_FIELD, W32(\H0000, \H000A), TRUE>>}

(***************************************************************************)
(* State                                                                   *)
(***************************************************************************)
VARIABLES
    shadowRegister,  \* tmc2240_shadowRegister[icID][address]
    dirtyBits,       \* tmc2240_dirtyBits, one flag per (icID, address)
    device,          \* the registers of each chip, behind the bus
    bus,             \* per chip: the bus transfers of its last call, or of its restore pass
    last,            \* per chip: the last completed call and its result
    pc,              \* per chip: "idle", "restore" while a restore pass runs,
                     \*   "restored" from its end to the next call on the chip
    restoreAddr,     \* per chip: the next address the restore pass examines
    booted,          \* tmc2240_initCache has run
    ops,             \* application operations so far
    lastOp,          \* history: per (icID, address) the last cache store and its value
    wrote,           \* history: per chip the addresses a WRITE has targeted
    again,           \* history: per chip, the running restore directly follows a restore
    prevLog,         \* history: per chip, the bus transfers of that previous restore
    hist,            \* history: per chip, where it is in write / reset / restore
    preReset,        \* history: per chip, the device registers right before its reset
    fields,          \* history: per chip, its last one or two field writes in a row
                     \*   to one register, nothing else having touched the chip since
    delivered,       \* history: per (icID, address) the value of the last bus write
                     \*   that reached the chip
    serialized,      \* concurrent callers: each fieldWrite is one exclusive section
    task,            \* concurrent callers: per caller, where it is in its fieldWrite
    scanI,           \* table pass: the address it examines next
    scanJ,           \* table pass: its position in tmc2240_RegisterConstants
    found,           \* table pass: per address passed, the constant it filled
    kinds,           \* table pass: per address passed, what its default entry may mean
    cStage, cField, cData, cValue, cUpdated, cExtracted,  \* the codec harness
    cField2, cValue2,  \* codec harness: a second field and the value written to it
    cTwice, cSwapped   \* codec harness: the word after both updates, in either order

cacheVars == <<shadowRegister, dirtyBits, device, bus, last, pc, restoreAddr,
               booted, ops, lastOp, wrote, again, prevLog, hist, preReset, fields,
               delivered>>

raceVars == <<serialized, task>>

tableVars == <<scanI, scanJ, found, kinds>>

algebraVars == <<cField2, cValue2, cTwice, cSwapped>>

codecVars == <<cStage, cField, cData, cValue, cUpdated, cExtracted,
               cField2, cValue2, cTwice, cSwapped>>

vars == <<shadowRegister, dirtyBits, device, bus, last, pc, restoreAddr,
          booted, ops, lastOp, wrote, again, prevLog, hist, preReset, fields,
          delivered,
          serialized, task,
          scanI, scanJ, found, kinds,
          cStage, cField, cData, cValue, cUpdated, cExtracted,
          cField2, cValue2, cTwice, cSwapped>>

\* No value: never a uint32_t.
NoValue == {-1}

(***************************************************************************)
(* The shadow cache                                                        *)
(***************************************************************************)
\* tmc2240_setDirtyBit / tmc2240_getDirtyBit on a dirty table di.
tmc2240_setDirtyBit_Toggle(di, icID, index, value) ==
    [di EXCEPT ![icID][index] = ~di[icID][index]]

tmc2240_setDirtyBit_WholeByte(di, icID, index, value) ==
    [di EXCEPT ![icID] = [i \in Addresses |->
                            IF i \div 8 = index \div 8 THEN value ELSE di[icID][i]]]

tmc2240_setDirtyBit(di, icID, index, value) ==
    [di EXCEPT ![icID][index] = value]

tmc2240_getDirtyBit(di, icID, index) == di[icID][index]

\* tmc2240_cache(icID, operation, address, &value) on the tables sh and di:
\* the returned flag, the value left in *value, and the tables afterwards.
tmc2240_cache_FillClearsDirty(sh, di, icID, operation, address, value) ==
    CASE operation = "READ" ->
            IF TMC2240_IS_READABLE(Permission(address))
            THEN [ok |-> FALSE, value |-> value, shadow |-> sh, dirty |-> di]
            ELSE [ok |-> TRUE, value |-> sh[icID][address], shadow |-> sh, dirty |-> di]
      [] OTHER ->
            [ok |-> TRUE, value |-> value,
             shadow |-> [sh EXCEPT ![icID][address] = value],
             dirty |-> tmc2240_setDirtyBit(di, icID, address, operation = "WRITE")]

tmc2240_cache_FillMarksDirty(sh, di, icID, operation, address, value) ==
    CASE operation = "READ" ->
            IF TMC2240_IS_READABLE(Permission(address))
            THEN [ok |-> FALSE, value |-> value, shadow |-> sh, dirty |-> di]
            ELSE [ok |-> TRUE, value |-> sh[icID][address], shadow |-> sh, dirty |-> di]
      [] OTHER ->
            [ok |-> TRUE, value |-> value,
             shadow |-> [sh EXCEPT ![icID][address] = value],
             dirty |-> tmc2240_setDirtyBit(di, icID, address, TRUE)]

tmc2240_cache_OneSlot(sh, di, icID, operation, address, value) ==
    CASE operation = "READ" ->
            IF TMC2240_IS_READABLE(Permission(address))
            THEN [ok |-> FALSE, value |-> value, shadow |-> sh, dirty |-> di]
            ELSE [ok |-> TRUE, value |-> sh[0][address], shadow |-> sh, dirty |-> di]
      [] operation = "WRITE" ->
            [ok |-> TRUE, value |-> value,
             shadow |-> [sh EXCEPT ![0][address] = value],
             dirty |-> tmc2240_setDirtyBit(di, 0, address, TRUE)]
      [] operation = "FILL_DEFAULT" ->
            [ok |-> TRUE, value |-> value,
             shadow |-> [sh EXCEPT ![0][address] = value],
             dirty |-> di]

tmc2240_cache(sh, di, icID, operation, address, value) ==
    CASE operation = "READ" ->
            IF TMC2240_IS_READABLE(Permission(address))
            THEN [ok |-> FALSE, value |-> value, shadow |-> sh, dirty |-> di]
            ELSE [ok |-> TRUE, value |-> sh[icID][address], shadow |-> sh, dirty |-> di]
      [] operation = "WRITE" ->
            [ok |-> TRUE, value |-> value,
             shadow |-> [sh EXCEPT ![icID][address] = value],
             dirty |-> tmc2240_setDirtyBit(di, icID, address, TRUE)]
      [] operation = "FILL_DEFAULT" ->
            [ok |-> TRUE, value |-> value,
             shadow |-> [sh EXCEPT ![icID][address] = value],
             dirty |-> di]

(***************************************************************************)
(* The device behind the bus                                               *)
(***************************************************************************)
\* The value a register of chip icID holds after a reset.  Chip 0 resets to
\* the documented values; the other chips stand for a silicon revision whose
\* reset values differ from the assumed ones.
DocumentedReset(a) ==
    IF tmc2240_registerAccess[a + 1] = TMC2240_ACCESS_W_PRESET /\ HasConstant(a)
    THEN ConstantOf(a)
    ELSE tmc2240_sampleRegisterPreset[a + 1]

ResetValue(icID, a) == IF icID = 0 THEN DocumentedReset(a) ELSE Z

\* A physical write of v to register a of a chip whose registers are regs:
\* a register without write permission ignores it, a flag register clears
\* the flags written as 1, any other register stores v.
DeviceWrite(regs, a, v) ==
    CASE Bits8(tmc2240_registerAccess[a + 1]) \cap Bits8(\H02) = {} -> regs
      [] tmc2240_registerAccess[a + 1] = \H23 -> [regs EXCEPT ![a] = BitAnd(regs[a], BitNot(v))]
      [] OTHER -> [regs EXCEPT ![a] = v]

\* One bus transfer, as logged.
BusRead(a, v) == [op |-> "R", address |-> a, value |-> v]

BusWrite(a, v) == [op |-> "W", address |-> a, value |-> v]

(***************************************************************************)
(* The register access port, as functions of the state                     *)
(***************************************************************************)
\* tmc2240_readRegister: the value returned and the bus transfers made.
tmc2240_readRegister(icID, address) ==
    LET c == tmc2240_cache(shadowRegister, dirtyBits, icID, "READ", address, Z)
    IN  IF c.ok
        THEN [value |-> c.value, bus |-> << >>]
        ELSE [value |-> device[icID][address],
              bus |-> << BusRead(address, device[icID][address]) >>]

\* tmc2240_writeRegister: the tables and the device afterwards, the transfer
\* made; busOk tells whether the transport delivered the write.
tmc2240_writeRegister_WriteOnlyCached(icID, address, value, busOk) ==
    LET c == IF TMC2240_IS_READABLE(Permission(address))
             THEN [shadow |-> shadowRegister, dirty |-> dirtyBits]
             ELSE tmc2240_cache(shadowRegister, dirtyBits, icID, "WRITE", address, value)
    IN  [shadow |-> c.shadow,
         dirty |-> c.dirty,
         device |-> IF busOk
                    THEN [device EXCEPT ![icID] = DeviceWrite(device[icID], address, value)]
                    ELSE device,
         bus |-> << BusWrite(address, value) >>]

tmc2240_writeRegister_CacheOnSuccess(icID, address, value, busOk) ==
    LET c == IF busOk
             THEN tmc2240_cache(shadowRegister, dirtyBits, icID, "WRITE", address, value)
             ELSE [shadow |-> shadowRegister, dirty |-> dirtyBits]
    IN  [shadow |-> c.shadow,
         dirty |-> c.dirty,
         device |-> IF busOk
                    THEN [device EXCEPT ![icID] = DeviceWrite(device[icID], address, value)]
                    ELSE device,
         bus |-> << BusWrite(address, value) >>]

tmc2240_writeRegister(icID, address, value, busOk) ==
    LET c == tmc2240_cache(shadowRegister, dirtyBits, icID, "WRITE", address, value)
    IN  [shadow |-> c.shadow,
         dirty |-> c.dirty,
         device |-> IF busOk
                    THEN [device EXCEPT ![icID] = DeviceWrite(device[icID], address, value)]
                    ELSE device,
         bus |-> << BusWrite(address, value) >>]

\* tmc2240_fieldRead.
tmc2240_fieldRead(icID, field) ==
    LET r == tmc2240_readRegister(icID, field.address)
    IN  [value |-> tmc2240_fieldExtract(r.value, field), bus |-> r.bus]

\* tmc2240_fieldWrite: read, update, write.
tmc2240_fieldWrite_FromShadow(icID, field, value, busOk) ==
    LET regValue == tmc2240_fieldUpdate(shadowRegister[icID][field.address], field, value)
        w == tmc2240_writeRegister(icID, field.address, regValue, busOk)
    IN  [shadow |-> w.shadow, dirty |-> w.dirty, device |-> w.device,
         bus |-> w.bus, regValue |-> regValue]

tmc2240_fieldWrite(icID, field, value, busOk) ==
    LET r == tmc2240_readRegister(icID, field.address)
        regValue == tmc2240_fieldUpdate(r.value, field, value)
        w == tmc2240_writeRegister(icID, field.address, regValue, busOk)
    IN  [shadow |-> w.shadow, dirty |-> w.dirty, device |-> w.device,
         bus |-> r.bus \o w.bus, regValue |-> regValue]

(***************************************************************************)
(* Initialization pass                                                     *)
(***************************************************************************)
\* The value the pass seeds address a with: the hardware-preset constant of
\* the register, or else its default value; a slot holding 0 (or N_A) with
\* no constant has nothing to seed.
SeedValue(a) == IF HasConstant(a) THEN ConstantOf(a)
                ELSE tmc2240_sampleRegisterPreset[a + 1]

Seeded_Every(a) == TRUE

Seeded(a) == HasConstant(a) \/ tmc2240_sampleRegisterPreset[a + 1] # Z

\* The pass: for every address i with something to seed, and for every chip
\* id, tmc2240_cache(id, TMC2240_CACHE_FILL_DEFAULT, i, &value).  A fill
\* touches entry (id, i) alone, so the tables after the pass are given entry
\* by entry.
InitPass(sh, di) ==
    [shadow |-> [id \in ICs |-> [i \in Addresses |->
                   IF Seeded(i)
                   THEN tmc2240_cache(sh, di, id, "FILL_DEFAULT", i, SeedValue(i)).shadow[id][i]
                   ELSE sh[id][i]]],
     dirty |-> [id \in ICs |-> [i \in Addresses |->
                   IF Seeded(i)
                   THEN tmc2240_cache(sh, di, id, "FILL_DEFAULT", i, SeedValue(i)).dirty[id][i]
                   ELSE di[id][i]]]]

(***************************************************************************)
(* Histories                                                               *)
(***************************************************************************)
\* The record of a completed operation: the call and its arguments; ok, the
\* flag tmc2240_cache returned or, for a call that went to the bus, whether
\* the transport delivered the transfer (the transport knows, see the bool
\* of tmc2240_readWriteUART); res, what the call returned to its caller
\* (NoValue for a void function).
Done(op, a, v, ok, res) ==
    [op |-> op, address |-> a, value |-> v, ok |-> ok, result |-> res]

\* hist[icID]: "clean" while the device holds what the application wrote
\* through writeRegister / fieldWrite, "reset" after a reset of such a device,
\* "restored" after a restore of it whose transfers all succeeded, "void"
\* once anything else happened (a failed transfer, a store into the cache
\* that bypassed the bus, a write or a second reset before the restore).
HistAfterWrite(h, busOk) ==
    IF busOk /\ h \in {"clean", "restored"} THEN "clean" ELSE "void"

HistAfterReset(h, running) ==
    IF ~running /\ h \in {"clean", "restored"} THEN "reset" ELSE "void"

\* fields[icID] after a fieldWrite(icID, field, value) that found the
\* register holding `before`: the write joins the previous one if that went
\* to the same register; a write the bus lost ends the row.
FieldsAfter(row, field, value, before, busOk) ==
    LET this == [field |-> field, value |-> value, before |-> before]
    IN  IF ~busOk THEN << >>
        ELSE IF row # << >> /\ row[Len(row)].field.address = field.address
             THEN << row[Len(row)], this >>
             ELSE << this >>

\* delivered after a call on chip icID whose transfers were log, the last
\* of them a write: the chip has the written value if the transport
\* delivered it.
DeliveredAfter(d, icID, log, busOk) ==
    IF busOk
    THEN [d EXCEPT ![icID][log[Len(log)].address] = log[Len(log)].value]
    ELSE d

CacheInit ==
    /\ shadowRegister = [ic \in ICs |-> [a \in Addresses |-> Z]]
    /\ dirtyBits = [ic \in ICs |-> [a \in Addresses |-> FALSE]]
    /\ device = [ic \in ICs |-> [a \in Addresses |-> ResetValue(ic, a)]]
    /\ bus = [ic \in ICs |-> << >>]
    /\ last = [ic \in ICs |-> Done("none", -1, NoValue, TRUE, NoValue)]
    /\ pc = [ic \in ICs |-> "idle"]
    /\ restoreAddr = [ic \in ICs |-> 0]
    /\ booted = FALSE
    /\ ops = 0
    /\ lastOp = [ic \in ICs |-> [a \in Addresses |-> [op |-> "NONE", value |-> NoValue]]]
    /\ wrote = [ic \in ICs |-> {}]
    /\ again = [ic \in ICs |-> FALSE]
    /\ prevLog = [ic \in ICs |-> << >>]
    /\ hist = [ic \in ICs |-> "clean"]
    /\ preReset = [ic \in ICs |-> [a \in Addresses |-> ResetValue(ic, a)]]
    /\ fields = [ic \in ICs |-> << >>]
    /\ delivered = [ic \in ICs |-> [a \in Addresses |-> NoValue]]

CodecOff ==
    /\ cStage = "off"
    /\ cField = RegField(Z, 0, 0, FALSE)
    /\ cData = Z
    /\ cValue = Z
    /\ cUpdated = Z
    /\ cExtracted = Z
    /\ cField2 = RegField(Z, 0, 0, FALSE)
    /\ cValue2 = Z
    /\ cTwice = Z
    /\ cSwapped = Z

\* No concurrent callers.
RaceOff ==
    /\ serialized = TRUE
    /\ task = << >>

\* No table pass under way.
TableOff ==
    /\ scanI = TMC2240_REGISTER_COUNT
    /\ scanJ = 0
    /\ found = << >>
    /\ kinds = << >>

Init == CacheInit /\ CodecOff /\ RaceOff /\ TableOff

(***************************************************************************)
(* Operations                                                              *)
(***************************************************************************)
\* The application may start an operation on chip icID.
CanCall(icID) == booted /\ pc[icID] # "restore" /\ ops < MaxOps

\* tmc2240_initCache(): it goes over the tables of every chip.  It runs at
\* startup, before any other call, and the application may run it again
\* later, while no restore pass is under way.
InitCache ==
    /\ booted => (ops < MaxOps /\ \A ic \in ICs : pc[ic] # "restore")
    /\ LET c == InitPass(shadowRegister, dirtyBits)
       IN  /\ shadowRegister' = c.shadow
           /\ dirtyBits' = c.dirty
    /\ booted' = TRUE
    /\ ops' = IF booted THEN ops + 1 ELSE ops
    /\ pc' = [ic \in ICs |-> "idle"]
    /\ bus' = [ic \in ICs |-> << >>]
    /\ last' = [ic \in ICs |-> Done("initCache", -1, NoValue, TRUE, NoValue)]
    /\ lastOp' = [ic \in ICs |-> [a \in Addresses |->
                    IF Seeded(a) THEN [op |-> "FILL_DEFAULT", value |-> SeedValue(a)]
                    ELSE lastOp[ic][a]]]
    /\ hist' = [ic \in ICs |-> IF booted THEN "void" ELSE hist[ic]]
    /\ fields' = [ic \in ICs |-> << >>]
    /\ UNCHANGED <<device, restoreAddr, wrote, again, prevLog, preReset>>
    /\ UNCHANGED delivered
    /\ UNCHANGED codecVars
    /\ UNCHANGED tableVars
    /\ UNCHANGED raceVars

\* tmc2240_cache(icID, TMC2240_CACHE_READ, address, &value)
CacheRead(icID, address) ==
    /\ CanCall(icID)
    /\ LET c == tmc2240_cache(shadowRegister, dirtyBits, icID, "READ", address, NoValue)
       IN  /\ shadowRegister' = c.shadow
           /\ dirtyBits' = c.dirty
           /\ last' = [last EXCEPT ![icID] =
                         Done("cacheRead", address, NoValue, c.ok, c.value)]
    /\ bus' = [bus EXCEPT ![icID] = << >>]
    /\ ops' = ops + 1
    /\ pc' = [pc EXCEPT ![icID] = "idle"]
    /\ UNCHANGED <<device, restoreAddr, booted, lastOp, wrote, again, prevLog,
                   hist, preReset,
                   fields>>
    /\ UNCHANGED delivered
    /\ UNCHANGED codecVars
    /\ UNCHANGED tableVars
    /\ UNCHANGED raceVars

\* tmc2240_cache(icID, TMC2240_CACHE_WRITE, address, &value)
CacheWrite(icID, address, value) ==
    /\ CanCall(icID)
    /\ LET c == tmc2240_cache(shadowRegister, dirtyBits, icID, "WRITE", address, value)
       IN  /\ shadowRegister' = c.shadow
           /\ dirtyBits' = c.dirty
           /\ last' = [last EXCEPT ![icID] =
                         Done("cacheWrite", address, value, c.ok, NoValue)]
    /\ bus' = [bus EXCEPT ![icID] = << >>]
    /\ ops' = ops + 1
    /\ pc' = [pc EXCEPT ![icID] = "idle"]
    /\ lastOp' = [lastOp EXCEPT ![icID][address] = [op |-> "WRITE", value |-> value]]
    /\ wrote' = [wrote EXCEPT ![icID] = @ \cup {address}]
    /\ hist' = [hist EXCEPT ![icID] = "void"]
    /\ fields' = [fields EXCEPT ![icID] = << >>]
    /\ UNCHANGED <<device, restoreAddr, booted, again, prevLog, preReset>>
    /\ UNCHANGED delivered
    /\ UNCHANGED codecVars
    /\ UNCHANGED tableVars
    /\ UNCHANGED raceVars

\* tmc2240_cache(icID, TMC2240_CACHE_FILL_DEFAULT, address, &value)
CacheFillDefault(icID, address, value) ==
    /\ CanCall(icID)
    /\ LET c == tmc2240_cache(shadowRegister, dirtyBits, icID, "FILL_DEFAULT", address, value)
       IN  /\ shadowRegister' = c.shadow
           /\ dirtyBits' = c.dirty
           /\ last' = [last EXCEPT ![icID] =
                         Done("cacheFill", address, value, c.ok, NoValue)]
    /\ bus' = [bus EXCEPT ![icID] = << >>]
    /\ ops' = ops + 1
    /\ pc' = [pc EXCEPT ![icID] = "idle"]
    /\ lastOp' = [lastOp EXCEPT ![icID][address] = [op |-> "FILL_DEFAULT", value |-> value]]
    /\ hist' = [hist EXCEPT ![icID] = "void"]
    /\ fields' = [fields EXCEPT ![icID] = << >>]
    /\ UNCHANGED <<device, restoreAddr, booted, wrote, again, prevLog, preReset>>
    /\ UNCHANGED delivered
    /\ UNCHANGED codecVars
    /\ UNCHANGED tableVars
    /\ UNCHANGED raceVars

\* tmc2240_readRegister(icID, address)
ReadRegister(icID, address) ==
    /\ CanCall(icID)
    /\ LET r == tmc2240_readRegister(icID, address)
       IN  /\ bus' = [bus EXCEPT ![icID] = r.bus]
           /\ last' = [last EXCEPT ![icID] =
                         Done("readRegister", address, NoValue, TRUE, r.value)]
    /\ ops' = ops + 1
    /\ pc' = [pc EXCEPT ![icID] = "idle"]
    /\ UNCHANGED <<shadowRegister, dirtyBits, device, restoreAddr, booted, lastOp,
                   wrote, again, prevLog, hist, preReset,
                   fields>>
    /\ UNCHANGED delivered
    /\ UNCHANGED codecVars
    /\ UNCHANGED tableVars
    /\ UNCHANGED raceVars

\* tmc2240_writeRegister(icID, address, value)
WriteRegister(icID, address, value, busOk) ==
    /\ CanCall(icID)
    /\ LET w == tmc2240_writeRegister(icID, address, value, busOk)
       IN  /\ shadowRegister' = w.shadow
           /\ dirtyBits' = w.dirty
           /\ device' = w.device
           /\ bus' = [bus EXCEPT ![icID] = w.bus]
           /\ delivered' = DeliveredAfter(delivered, icID, w.bus, busOk)
    /\ last' = [last EXCEPT ![icID] =
                  Done("writeRegister", address, value, busOk, NoValue)]
    /\ ops' = ops + 1
    /\ pc' = [pc EXCEPT ![icID] = "idle"]
    /\ lastOp' = [lastOp EXCEPT ![icID][address] = [op |-> "WRITE", value |-> value]]
    /\ wrote' = [wrote EXCEPT ![icID] = @ \cup {address}]
    /\ hist' = [hist EXCEPT ![icID] = HistAfterWrite(@, busOk)]
    /\ fields' = [fields EXCEPT ![icID] = << >>]
    /\ UNCHANGED <<restoreAddr, booted, again, prevLog, preReset>>
    /\ UNCHANGED codecVars
    /\ UNCHANGED tableVars
    /\ UNCHANGED raceVars

\* tmc2240_fieldRead(icID, field)
FieldRead(icID, field) ==
    /\ CanCall(icID)
    /\ LET r == tmc2240_fieldRead(icID, field)
       IN  /\ bus' = [bus EXCEPT ![icID] = r.bus]
           /\ last' = [last EXCEPT ![icID] =
                         Done("fieldRead", field.address, NoValue, TRUE, r.value)]
    /\ ops' = ops + 1
    /\ pc' = [pc EXCEPT ![icID] = "idle"]
    /\ UNCHANGED <<shadowRegister, dirtyBits, device, restoreAddr, booted, lastOp,
                   wrote, again, prevLog, hist, preReset,
                   fields>>
    /\ UNCHANGED delivered
    /\ UNCHANGED codecVars
    /\ UNCHANGED tableVars
    /\ UNCHANGED raceVars

\* tmc2240_fieldWrite(icID, field, value), as one exclusive section.
FieldWrite(icID, field, value, busOk) ==
    /\ CanCall(icID)
    /\ LET w == tmc2240_fieldWrite(icID, field, value, busOk)
       IN  /\ shadowRegister' = w.shadow
           /\ dirtyBits' = w.dirty
           /\ device' = w.device
           /\ bus' = [bus EXCEPT ![icID] = w.bus]
           /\ last' = [last EXCEPT ![icID] =
                         Done("fieldWrite", field.address, value, busOk, w.regValue)]
           /\ lastOp' = [lastOp EXCEPT ![icID][field.address] =
                           [op |-> "WRITE", value |-> w.regValue]]
           /\ delivered' = DeliveredAfter(delivered, icID, w.bus, busOk)
    /\ ops' = ops + 1
    /\ pc' = [pc EXCEPT ![icID] = "idle"]
    /\ wrote' = [wrote EXCEPT ![icID] = @ \cup {field.address}]
    /\ hist' = [hist EXCEPT ![icID] = HistAfterWrite(@, busOk)]
    /\ fields' = [fields EXCEPT ![icID] =
                    FieldsAfter(@, field, value,
                                tmc2240_readRegister(icID, field.address).value, busOk)]
    /\ UNCHANGED <<restoreAddr, booted, again, prevLog, preReset>>
    /\ UNCHANGED codecVars
    /\ UNCHANGED tableVars
    /\ UNCHANGED raceVars

(***************************************************************************)
(* Restore, and the reset of a device                                      *)
(***************************************************************************)
\* The addresses from `from` on that the restore pass rewrites: dirty, and
\* of a permission other than none.
ToRestore(di, icID, from) ==
    {a \in Addresses : /\ a >= from
                       /\ tmc2240_getDirtyBit(di, icID, a)
                       /\ Permission(a) # \H00}

LeastOf(S) == CHOOSE a \in S : \A b \in S : a <= b

\* The restore pass starts at address 0.
RestoreStart(icID) ==
    /\ CanCall(icID)
    /\ pc' = [pc EXCEPT ![icID] = "restore"]
    /\ restoreAddr' = [restoreAddr EXCEPT ![icID] = 0]
    /\ bus' = [bus EXCEPT ![icID] = << >>]
    /\ again' = [again EXCEPT ![icID] = (pc[icID] = "restored")]
    /\ prevLog' = [prevLog EXCEPT ![icID] =
                     IF pc[icID] = "restored" THEN bus[icID] ELSE << >>]
    /\ ops' = ops + 1
    /\ UNCHANGED <<shadowRegister, dirtyBits, device, last, booted, lastOp, wrote, hist,
                   preReset,
                   fields>>
    /\ UNCHANGED delivered
    /\ UNCHANGED codecVars
    /\ UNCHANGED tableVars
    /\ UNCHANGED raceVars

\* The pass goes on to the next dirty address and rewrites it:
\* tmc2240_writeRegister(icID, address, shadowValue).
RestoreStep(icID, busOk) ==
    /\ pc[icID] = "restore"
    /\ ToRestore(dirtyBits, icID, restoreAddr[icID]) # {}
    /\ LET a == LeastOf(ToRestore(dirtyBits, icID, restoreAddr[icID]))
           w == tmc2240_writeRegister(icID, a, shadowRegister[icID][a], busOk)
       IN  /\ shadowRegister' = w.shadow
           /\ dirtyBits' = w.dirty
           /\ device' = w.device
           /\ bus' = [bus EXCEPT ![icID] = @ \o w.bus]
           /\ restoreAddr' = [restoreAddr EXCEPT ![icID] = a + 1]
           /\ delivered' = DeliveredAfter(delivered, icID, w.bus, busOk)
    /\ hist' = [hist EXCEPT ![icID] = IF busOk THEN @ ELSE "void"]
    /\ fields' = [fields EXCEPT ![icID] = << >>]
    /\ UNCHANGED <<last, pc, booted, ops, lastOp, wrote, again, prevLog, preReset>>
    /\ UNCHANGED codecVars
    /\ UNCHANGED tableVars
    /\ UNCHANGED raceVars

\* No dirty address is left up to 127: the pass ends.
RestoreDone(icID) ==
    /\ pc[icID] = "restore"
    /\ ToRestore(dirtyBits, icID, restoreAddr[icID]) = {}
    /\ pc' = [pc EXCEPT ![icID] = "restored"]
    /\ restoreAddr' = [restoreAddr EXCEPT ![icID] = TMC2240_REGISTER_COUNT]
    /\ hist' = [hist EXCEPT ![icID] = IF @ = "reset" THEN "restored" ELSE @]
    /\ UNCHANGED <<shadowRegister, dirtyBits, device, bus, last, booted, ops, lastOp,
                   wrote, again, prevLog, preReset,
                   fields>>
    /\ UNCHANGED delivered
    /\ UNCHANGED codecVars
    /\ UNCHANGED tableVars
    /\ UNCHANGED raceVars

\* The chip loses its state (power cycle, reset): every register reverts to
\* its reset value.  The cache is not told.
DeviceReset(icID) ==
    /\ booted
    /\ ops < MaxOps
    /\ device' = [device EXCEPT ![icID] = [a \in Addresses |-> ResetValue(icID, a)]]
    /\ hist' = [hist EXCEPT ![icID] = HistAfterReset(@, pc[icID] = "restore")]
    /\ preReset' = [preReset EXCEPT ![icID] = device[icID]]
    /\ ops' = ops + 1
    /\ fields' = [fields EXCEPT ![icID] = << >>]
    /\ UNCHANGED <<shadowRegister, dirtyBits, bus, last, pc, restoreAddr, booted,
                   lastOp, wrote, again, prevLog>>
    /\ UNCHANGED delivered
    /\ UNCHANGED codecVars
    /\ UNCHANGED tableVars
    /\ UNCHANGED raceVars

Next ==
    \/ InitCache
    \/ \E c \in CacheReadCalls : CacheRead(c[1], c[2])
    \/ \E c \in CacheWriteCalls : CacheWrite(c[1], c[2], c[3])
    \/ \E c \in FillCalls : CacheFillDefault(c[1], c[2], c[3])
    \/ \E c \in ReadCalls : ReadRegister(c[1], c[2])
    \/ \E c \in WriteCalls : WriteRegister(c[1], c[2], c[3], c[4])
    \/ \E c \in FieldReadCalls : FieldRead(c[1], c[2])
    \/ \E c \in FieldWriteCalls : FieldWrite(c[1], c[2], c[3], c[4])
    \/ \E ic \in ICs : RestoreStart(ic)
    \/ \E ic \in ICs, ok \in BOOLEAN : RestoreStep(ic, ok)
    \/ \E ic \in ICs : RestoreDone(ic)
    \/ \E ic \in ICs : DeviceReset(ic)

Spec == Init /\ [][Next]_vars

(***************************************************************************)
(* Concurrent callers of tmc2240_fieldWrite on one chip                    *)
(***************************************************************************)
\* Two callers run tmc2240_fieldWrite on chip 0, each on its own field of
\* one register: IRUN and IHOLD of the readable IHOLD_IRUN, or the two
\* fields of the write-only MSLUT[0].
Callers == {1, 2}

RaceJobs == { <<TMC2225_IRUN_FIELD, TMC2225_IHOLD_FIELD>>, <<F_MSLUT, F_MSLUT_LO>> }

RaceValues == {W32(\H0000, \H0015), W32(\H0000, \H001F)}

\* The tables as tmc2240_initCache leaves them at startup.
RaceInit ==
    /\ CodecOff
    /\ TableOff
    /\ LET c == InitPass([ic \in ICs |-> [a \in Addresses |-> Z]],
                         [ic \in ICs |-> [a \in Addresses |-> FALSE]])
       IN  /\ shadowRegister = c.shadow
           /\ dirtyBits = c.dirty
    /\ device = [ic \in ICs |-> [a \in Addresses |-> ResetValue(ic, a)]]
    /\ bus = [ic \in ICs |-> << >>]
    /\ booted = TRUE
    /\ ops = 0
    /\ last = << >> /\ pc = << >> /\ restoreAddr = << >> /\ lastOp = << >>
    /\ wrote = << >> /\ again = << >> /\ prevLog = << >> /\ hist = << >>
    /\ preReset = << >> /\ fields = << >> /\ delivered = << >>
    /\ serialized \in BOOLEAN
    /\ \E job \in RaceJobs, v1 \in RaceValues, v2 \in RaceValues :
          task = [t \in Callers |->
                    [pc |-> "start",
                     field |-> job[t],
                     value |-> IF t = 1 THEN v1 ELSE v2,
                     regValue |-> Z,
                     stale |-> FALSE]]

\* Caller t may enter its fieldWrite: with external serialization, only
\* while no other caller is inside one.
MayEnter(t) ==
    serialized => \A u \in Callers \ {t} : task[u].pc \in {"start", "done"}

\* uint32_t regValue = tmc2240_readRegister(icID, field.address);
RaceRead(t) ==
    /\ task[t].pc = "start"
    /\ MayEnter(t)
    /\ LET r == tmc2240_readRegister(0, task[t].field.address)
       IN  /\ task' = [task EXCEPT ![t].pc = "read", ![t].regValue = r.value]
           /\ bus' = [bus EXCEPT ![0] = @ \o r.bus]
    /\ UNCHANGED <<shadowRegister, dirtyBits, device, last, pc, restoreAddr, booted, ops,
                   lastOp, wrote, again, prevLog, hist, preReset, fields, delivered,
                   serialized>>
    /\ UNCHANGED codecVars
    /\ UNCHANGED tableVars

\* regValue = tmc2240_fieldUpdate(regValue, field, value);
RaceUpdate(t) ==
    /\ task[t].pc = "read"
    /\ task' = [task EXCEPT ![t].pc = "updated",
                            ![t].regValue = tmc2240_fieldUpdate(task[t].regValue,
                                                                task[t].field,
                                                                task[t].value)]
    /\ UNCHANGED cacheVars
    /\ UNCHANGED serialized
    /\ UNCHANGED codecVars
    /\ UNCHANGED tableVars

\* tmc2240_writeRegister(icID, field.address, regValue);  A caller that has
\* read and not yet written now holds a value older than the register.
RaceWrite(t) ==
    /\ task[t].pc = "updated"
    /\ LET w == tmc2240_writeRegister(0, task[t].field.address, task[t].regValue, TRUE)
       IN  /\ shadowRegister' = w.shadow
           /\ dirtyBits' = w.dirty
           /\ device' = w.device
           /\ bus' = [bus EXCEPT ![0] = @ \o w.bus]
    /\ task' = [u \in Callers |->
                   IF u = t THEN [task[u] EXCEPT !.pc = "done"]
                   ELSE IF task[u].pc \in {"read", "updated"}
                        THEN [task[u] EXCEPT !.stale = TRUE]
                        ELSE task[u]]
    /\ UNCHANGED <<last, pc, restoreAddr, booted, ops, lastOp, wrote, again, prevLog,
                   hist, preReset, fields, delivered, serialized>>
    /\ UNCHANGED codecVars
    /\ UNCHANGED tableVars

RaceNext == \E t \in Callers : RaceRead(t) \/ RaceUpdate(t) \/ RaceWrite(t)

RaceSpec == RaceInit /\ [][RaceNext]_vars

(***************************************************************************)
(* The codec on its own: fields of every contiguous width and shift        *)
(***************************************************************************)
\* The mask of the w bits from bit s on.
MaskOf(w, s) == s .. (s + w - 1)

\* Every contiguous field: width 1..32, at every shift that keeps it in the
\* word, signed and unsigned.
ContiguousFields ==
    UNION { {RegField(MaskOf(w, s), s, 0, sg) :
                s \in 0 .. (WordBits - w), sg \in BOOLEAN} : w \in 1 .. WordBits }

\* Descriptors outside the RegisterField invariant: a mask with a hole, and
\* a shift above the lowest bit of the mask.
IrregularFields ==
    {RegField(W32(\H0000, \HF0F0), 4, 0, FALSE),
     RegField(W32(\H0000, \H0FF0), 6, 0, FALSE)}

CodecFields == ContiguousFields \cup IrregularFields

\* Register contents and new field values.
CodecWords == {Z, BitPos, W32(\HAAAA, \HAAAA), W32(\H5555, \H5555), W32(\H01FF, \H2108),
               W32(\HFFFF, \HFFF6)}

\* The RegisterField invariant: contiguous mask, shift at its lowest bit.
IsRegular(f) ==
    /\ f.mask # {}
    /\ \A b \in BitPos : (b \in f.mask) <=> (f.shift <= b /\ b < f.shift + Cardinality(f.mask))

CacheOff ==
    /\ shadowRegister = << >>
    /\ dirtyBits = << >>
    /\ device = << >>
    /\ bus = << >>
    /\ last = << >>
    /\ pc = << >>
    /\ restoreAddr = << >>
    /\ booted = FALSE
    /\ ops = 0
    /\ lastOp = << >>
    /\ wrote = << >>
    /\ again = << >>
    /\ prevLog = << >>
    /\ hist = << >>
    /\ preReset = << >>
    /\ fields = << >>
    /\ delivered = << >>

CodecInit ==
    /\ CacheOff
    /\ RaceOff
    /\ TableOff
    /\ cStage = "input"
    /\ cField \in CodecFields
    /\ cData \in CodecWords
    /\ cValue \in CodecWords
    /\ cUpdated = Z
    /\ cExtracted = Z
    /\ cField2 = RegField(Z, 0, 0, FALSE)
    /\ cValue2 = Z
    /\ cTwice = Z
    /\ cSwapped = Z

\* cUpdated = tmc2240_fieldUpdate(cData, cField, cValue)
CodecUpdate ==
    /\ cStage = "input"
    /\ cUpdated' = tmc2240_fieldUpdate(cData, cField, cValue)
    /\ cStage' = "updated"
    /\ UNCHANGED <<cField, cData, cValue, cExtracted>>
    /\ UNCHANGED algebraVars
    /\ UNCHANGED cacheVars
    /\ UNCHANGED raceVars
    /\ UNCHANGED tableVars

\* cExtracted = tmc2240_fieldExtract(cUpdated, cField)
CodecExtract ==
    /\ cStage = "updated"
    /\ cExtracted' = tmc2240_fieldExtract(cUpdated, cField)
    /\ cStage' = "extracted"
    /\ UNCHANGED <<cField, cData, cValue, cUpdated>>
    /\ UNCHANGED algebraVars
    /\ UNCHANGED cacheVars
    /\ UNCHANGED raceVars
    /\ UNCHANGED tableVars

\* cExtracted = tmc2240_fieldExtract(cData, cField)
CodecDecode ==
    /\ cStage = "input"
    /\ cExtracted' = tmc2240_fieldExtract(cData, cField)
    /\ cStage' = "decoded"
    /\ UNCHANGED <<cField, cData, cValue, cUpdated>>
    /\ UNCHANGED algebraVars
    /\ UNCHANGED cacheVars
    /\ UNCHANGED raceVars
    /\ UNCHANGED tableVars

CodecNext == CodecUpdate \/ CodecExtract \/ CodecDecode

CodecSpec == CodecInit /\ [][CodecNext]_vars

(***************************************************************************)
(* Two updates of one word, in either order                                *)
(***************************************************************************)
\* Fields of the headers, the fields of MSLUT[0], a field ending at bit 31,
\* the full word, and the two irregular descriptors.
AlgebraFields ==
    {TMC2225_I_SCALE_ANALOG_FIELD, TMC2225_IHOLD_FIELD, TMC2225_IRUN_FIELD,
     TMC2225_VACTUAL_FIELD, F_MSLUT,
     RegField(W32(\HFF00, \H0000), 24, 0, FALSE),
     RegField(BitPos, 0, 0, TRUE)}
    \cup IrregularFields

AlgebraInit ==
    /\ CacheOff
    /\ RaceOff
    /\ TableOff
    /\ cStage = "input"
    /\ cField \in AlgebraFields
    /\ cField2 \in AlgebraFields
    /\ cData \in CodecWords
    /\ cValue \in CodecWords
    /\ cValue2 \in CodecWords
    /\ cUpdated = Z
    /\ cExtracted = Z
    /\ cTwice = Z
    /\ cSwapped = Z

\* cUpdated = tmc2240_fieldUpdate(cData, cField, cValue)
UpdateFirst ==
    /\ cStage = "input"
    /\ cUpdated' = tmc2240_fieldUpdate(cData, cField, cValue)
    /\ cStage' = "f"
    /\ UNCHANGED <<cField, cData, cValue, cExtracted, cField2, cValue2, cTwice, cSwapped>>
    /\ UNCHANGED cacheVars
    /\ UNCHANGED raceVars
    /\ UNCHANGED tableVars

\* cTwice = tmc2240_fieldUpdate(cUpdated, cField2, cValue2)
UpdateSecond ==
    /\ cStage = "f"
    /\ cTwice' = tmc2240_fieldUpdate(cUpdated, cField2, cValue2)
    /\ cStage' = "fg"
    /\ UNCHANGED <<cField, cData, cValue, cUpdated, cExtracted, cField2, cValue2, cSwapped>>
    /\ UNCHANGED cacheVars
    /\ UNCHANGED raceVars
    /\ UNCHANGED tableVars

\* The other order, from the same word:
\* cUpdated = tmc2240_fieldUpdate(cData, cField2, cValue2)
UpdateOther ==
    /\ cStage = "fg"
    /\ cUpdated' = tmc2240_fieldUpdate(cData, cField2, cValue2)
    /\ cStage' = "g"
    /\ UNCHANGED <<cField, cData, cValue, cExtracted, cField2, cValue2, cTwice, cSwapped>>
    /\ UNCHANGED cacheVars
    /\ UNCHANGED raceVars
    /\ UNCHANGED tableVars

\* cSwapped = tmc2240_fieldUpdate(cUpdated, cField, cValue)
UpdateOtherSecond ==
    /\ cStage = "g"
    /\ cSwapped' = tmc2240_fieldUpdate(cUpdated, cField, cValue)
    /\ cStage' = "gf"
    /\ UNCHANGED <<cField, cData, cValue, cUpdated, cExtracted, cField2, cValue2, cTwice>>
    /\ UNCHANGED cacheVars
    /\ UNCHANGED raceVars
    /\ UNCHANGED tableVars

AlgebraNext == UpdateFirst \/ UpdateSecond \/ UpdateOther \/ UpdateOtherSecond

AlgebraSpec == AlgebraInit /\ [][AlgebraNext]_vars

(***************************************************************************)
(* One ascending pass over the static tables                               *)
(***************************************************************************)
\* The pass goes over the addresses 0..127 once, in ascending order.  For a
\* 0x42 address it moves its position in tmc2240_RegisterConstants forward
\* while the entry there is for a lower address, stops at the end of the
\* list, and takes the constant if the entry is for this address.  Along the
\* way it reads the default value of each address and notes what that entry
\* can stand for, going by the entry alone.

\* The position reached from j: while (j in the list and the address there
\* is below i) j++.
RECURSIVE AdvanceTo(_, _)
AdvanceTo(j, i) ==
    IF j <= Len(tmc2240_RegisterConstants) /\ tmc2240_RegisterConstants[j].address < i
    THEN AdvanceTo(j + 1, i)
    ELSE j

\* What a default value entry v can stand for: the hardware preset marker
\* N_A, the literal 0 of a register without default, or else a default.
MarkersOf(v) ==
    LET m == {k \in {"preset", "none"} :
                 \/ k = "preset" /\ v = N_A
                 \/ k = "none" /\ v = Z}
    IN  IF m = {} THEN {"default"} ELSE m

\* found, extended by the entry a |-> v.
Extended(f, a, v) == [x \in (DOMAIN f) \cup {a} |-> IF x = a THEN v ELSE f[x]]

TableInit ==
    /\ CacheOff
    /\ CodecOff
    /\ RaceOff
    /\ scanI = 0
    /\ scanJ = 1
    /\ found = << >>
    /\ kinds = << >>

\* The pass examines address scanI.
ScanStep ==
    /\ scanI < TMC2240_REGISTER_COUNT
    /\ LET i == scanI
           j == AdvanceTo(scanJ, i)
       IN  /\ kinds' = Extended(kinds, i, MarkersOf(tmc2240_sampleRegisterPreset[i + 1]))
           /\ IF tmc2240_registerAccess[i + 1] # TMC2240_ACCESS_W_PRESET
              THEN /\ scanI' = i + 1
                   /\ UNCHANGED <<scanJ, found>>
              ELSE IF j > Len(tmc2240_RegisterConstants)
                   THEN /\ scanI' = TMC2240_REGISTER_COUNT
                        /\ scanJ' = j
                        /\ UNCHANGED found
                   ELSE /\ scanI' = i + 1
                        /\ scanJ' = j
                        /\ found' = IF tmc2240_RegisterConstants[j].address = i
                                     THEN Extended(found, i, tmc2240_RegisterConstants[j].value)
                                     ELSE found
    /\ UNCHANGED cacheVars
    /\ UNCHANGED raceVars
    /\ UNCHANGED codecVars

TableNext == ScanStep

TableSpec == TableInit /\ [][TableNext]_vars

(***************************************************************************)
(* Properties of the codec                                                 *)
(***************************************************************************)
Width(f) == Cardinality(f.mask)

\* The raw field bits of data, moved down to bit 0.
RawBits(data, f) == {b - f.shift : b \in (data \cap f.mask)}

\* The 32-bit value that w raw bits stand for in two's complement, by
\* arithmetic: raw - 2^w when the top bit of the field is set, raw otherwise.
TwosComplement(raw, w) ==
    IF w = WordBits THEN AsInt32(raw)
    ELSE IF (w - 1) \in raw
         THEN SumBits(raw) - 2^(w - 1) - 2^(w - 1)
         ELSE SumBits(raw)

\* C1: for every unsigned field with a contiguous mask and its shift at the
\* lowest mask bit, every register value r and every value v, extracting the
\* field from update(r, F, v) gives v & (mask >> shift).
C1_RoundTripUnsigned ==
    (cStage = "extracted" /\ IsRegular(cField) /\ ~cField.isSigned)
        => cExtracted = BitAnd(cValue, Shr(cField.mask, cField.shift))

\* A round trip through a field narrower than the value written, over a
\* register that held other bits.
C1_Witness ==
    /\ cStage = "extracted"
    /\ IsRegular(cField) /\ ~cField.isSigned
    /\ Width(cField) = 5 /\ cField.shift = 8
    /\ cValue = BitPos
    /\ cData = W32(\HAAAA, \HAAAA)
    /\ cExtracted = W32(\H0000, \H001F)

\* C2: a signed field of any contiguous width 1..32 at any shift decodes to
\* the two's-complement value of its raw bits (raw - 2^w with the top field
\* bit set, raw otherwise), an unsigned one to the raw bits; mask 0x01FF0000,
\* shift 16 with raw bits 0x1FF decodes to -1 signed and to 511 unsigned.
C2_SignExtension ==
    (cStage = "decoded" /\ IsRegular(cField))
        => /\ cField.isSigned
                => AsInt32(cExtracted) = TwosComplement(RawBits(cData, cField), Width(cField))
           /\ ~cField.isSigned => cExtracted = RawBits(cData, cField)
           /\ (cField.mask = W32(\H01FF, \H0000) /\ RawBits(cData, cField) = W32(\H0000, \H01FF))
                => IF cField.isSigned THEN AsInt32(cExtracted) = -1
                   ELSE AsInt32(cExtracted) = 511

\* The nine bits 0x1FF at mask 0x01FF0000 decoded as a signed field.
C2_Witness ==
    /\ cStage = "decoded"
    /\ cField = RegField(W32(\H01FF, \H0000), 16, 0, TRUE)
    /\ cData = W32(\H01FF, \H2108)
    /\ AsInt32(cExtracted) = -1

\* C3: update(r, F, v) keeps every bit of r outside the mask and sets the
\* bits inside the mask to (v << shift) & mask, for every field descriptor
\* and every v, wider than the field or not.
C3_UpdateFrame ==
    cStage = "updated"
        => /\ BitAnd(cUpdated, BitNot(cField.mask)) = BitAnd(cData, BitNot(cField.mask))
           /\ BitAnd(cUpdated, cField.mask) = BitAnd(Shl(cValue, cField.shift), cField.mask)

\* An update with a value wider than the field, over a register that holds
\* bits above and below the field.
C3_Witness ==
    /\ cStage = "updated"
    /\ cField.mask = W32(\H0000, \H1F00) /\ cField.shift = 8
    /\ cValue = BitPos
    /\ cData = W32(\H5555, \H5555)
    /\ cUpdated = W32(\H5555, \H5F55)

\* The sign mask as tmc2240_fieldExtract computes it, and as the
\* specification gives it.
ImplementedSignMask(f) ==
    BitAnd(Shr(f.mask, f.shift), Shr(BitNot(Shr(f.mask, f.shift)), 1))

SpecifiedSignMask(f) ==
    BitAnd(Shr(f.mask, f.shift), BitNot(Shr(Shr(f.mask, f.shift), 1)))

\* C23: for every contiguous field, of every width 1..32 at every shift (a
\* full 32-bit mask and fields ending at bit 31 included), what
\* tmc2240_fieldExtract returns, with its sign mask
\* baseMask & (~baseMask >> 1), is what extract returns with the specified
\* sign mask (mask>>shift) & ~((mask>>shift)>>1).
C23_SignMaskEquivalence ==
    /\ (cStage = "decoded" /\ IsRegular(cField))
          => cExtracted = extract(cData, cField)
    /\ (cStage = "extracted" /\ IsRegular(cField))
          => cExtracted = extract(cUpdated, cField)

\* A signed field over the full word, its top bit set: the implemented sign
\* mask is empty, the specified one is bit 31, and the decoded value is the
\* word itself.
C23_Witness ==
    /\ cStage = "decoded"
    /\ cField = RegField(BitPos, 0, 0, TRUE)
    /\ cData = W32(\HAAAA, \HAAAA)
    /\ ImplementedSignMask(cField) = {}
    /\ SpecifiedSignMask(cField) = {WordBits - 1}
    /\ cExtracted = W32(\HAAAA, \HAAAA)

\* v, as a 32-bit two's-complement value, is within the range of a signed
\* field of width w: -2^(w-1) <= v <= 2^(w-1) - 1.
InSignedRange(v, w) ==
    \/ w = WordBits
    \/ /\ -(2^(w - 1)) <= AsInt32(v)
       /\ AsInt32(v) <= 2^(w - 1) - 1

\* C24: for every signed contiguous field F of width w, every register
\* value r and every v within -2^(w-1) .. 2^(w-1)-1 as a 32-bit
\* two's-complement value, extract(update(r, F, v), F) = v.
C24_RoundTripSigned ==
    (cStage = "extracted" /\ IsRegular(cField) /\ cField.isSigned
        /\ InSignedRange(cValue, Width(cField)))
        => cExtracted = cValue

\* -10 through a signed field of 24 bits at shift 0 (the shape of VACTUAL in
\* the TMC2225 header), over a register that held other bits.
C24_Witness ==
    /\ cStage = "extracted"
    /\ cField = RegField(W32(\H00FF, \HFFFF), 0, 0, TRUE)
    /\ cData = W32(\H5555, \H5555)
    /\ cValue = W32(\HFFFF, \HFFF6)
    /\ cUpdated = W32(\H55FF, \HFFF6)
    /\ AsInt32(cExtracted) = -10

\* C25: for fields F and G with disjoint masks, update(update(r, F, a), G,
\* b) = update(update(r, G, b), F, a) for all r, a, b; and for one field the
\* last update wins: update(update(r, F, a), F, b) = update(r, F, b).
C25_UpdateAlgebra ==
    /\ (cStage = "gf" /\ cField.mask \cap cField2.mask = {})
          => cTwice = cSwapped
    /\ (cStage \in {"g", "gf"} /\ cField2 = cField)
          => cTwice = cUpdated

\* IRUN then IHOLD, and IHOLD then IRUN, of the word 0x55555555, with values
\* wider than the fields: the same word either way.
C25_Witness ==
    /\ cStage = "gf"
    /\ cField = TMC2225_IRUN_FIELD /\ cValue = W32(\HFFFF, \HFFF6)
    /\ cField2 = TMC2225_IHOLD_FIELD /\ cValue2 = W32(\H01FF, \H2108)
    /\ cData = W32(\H5555, \H5555)
    /\ cTwice = W32(\H5555, \H5648)
    /\ cSwapped = W32(\H5555, \H5648)

(***************************************************************************)
(* Properties of the shadow cache, the access port and the restore pass    *)
(***************************************************************************)
\* The permission byte of address a as TMC2240.h lists it.
Listed(a) == tmc2240_registerAccess[a + 1]

\* Write (0x02) or WriteWithHardwarePreset (0x42): not physically readable.
WriteOnly(a) == Listed(a) \in {\H02, \H42}

\* Read (0x01), ReadWrite (0x03), ReadWriteSplit (0x13), Flag (0x23).
ReadCapable == {\H01, \H03, \H13, \H23}

\* The transfers for address a in the log of chip ic.
TransfersFor(ic, a) == SelectSeq(bus[ic], LAMBDA t : t.address = a)

\* The last call on chip ic was a READ of address a (tmc2240_cache READ, or
\* tmc2240_readRegister).
ReadOf(ic, a) ==
    last[ic].op \in {"cacheRead", "readRegister"} /\ last[ic].address = a

\* C4: on a write-only register (Write or WriteWithHardwarePreset), once a
\* WRITE of v was the last store, the register is dirty, a READ returns
\* exactly v, and a restore pass run afterwards issues one write of exactly v
\* (the most recently written value) for that address.
C4_WriteReadRestore ==
    \A ic \in ICs, a \in Addresses :
        (booted /\ WriteOnly(a) /\ lastOp[ic][a].op = "WRITE")
            => /\ dirtyBits[ic][a] = TRUE
               /\ ReadOf(ic, a)
                    => last[ic].ok /\ last[ic].result = lastOp[ic][a].value
               /\ pc[ic] = "restored"
                    => TransfersFor(ic, a) = << BusWrite(a, lastOp[ic][a].value) >>

\* MSLUT[0] of chip 0 written with V2, read back, then restored.
C4_Witness ==
    /\ pc[0] = "restored"
    /\ lastOp[0][\H60] = [op |-> "WRITE", value |-> V2]
    /\ last[0] = Done("readRegister", \H60, NoValue, TRUE, V2)
    /\ bus[0] = << BusWrite(\H60, V2) >>

\* C5: on a write-only register that the application has not written, once
\* a FILL_DEFAULT of d was the last store, a READ returns d, the register is
\* not dirty, and a restore pass run afterwards issues no write for it.
C5_FillReadRestore ==
    \A ic \in ICs, a \in Addresses :
        (booted /\ WriteOnly(a) /\ lastOp[ic][a].op = "FILL_DEFAULT" /\ a \notin wrote[ic])
            => /\ dirtyBits[ic][a] = FALSE
               /\ ReadOf(ic, a)
                    => last[ic].ok /\ last[ic].result = lastOp[ic][a].value
               /\ pc[ic] \in {"restore", "restored"} => TransfersFor(ic, a) = << >>

\* MSLUT[0] of chip 0 filled with V1, read back, then a restore pass run.
C5_Witness ==
    /\ pc[0] = "restored"
    /\ lastOp[0][\H60] = [op |-> "FILL_DEFAULT", value |-> V1]
    /\ \H60 \notin wrote[0]
    /\ last[0] = Done("cacheRead", \H60, NoValue, TRUE, V1)
    /\ bus[0] = << >>

\* C6: for an address whose permission has the read capability the cache
\* READ is declined in every cache state and readRegister makes one physical
\* bus read, whose value it returns; for every other address readRegister
\* makes no bus transfer and returns shadowValue.
C6_ReadRouting ==
    /\ \A x \in {\H00, \H01, \H02, \H03, \H13, \H23, \H42} :
          TMC2240_IS_READABLE(x) <=> x \in ReadCapable
    /\ \A ic \in ICs :
          (booted /\ pc[ic] = "idle")
             => LET a == last[ic].address
                IN  /\ (last[ic].op = "cacheRead" /\ Listed(a) \in ReadCapable)
                          => ~last[ic].ok
                    /\ (last[ic].op = "readRegister" /\ Listed(a) \in ReadCapable)
                          => bus[ic] = << BusRead(a, last[ic].result) >>
                    /\ (last[ic].op = "readRegister" /\ Listed(a) \notin ReadCapable)
                          => /\ bus[ic] = << >>
                             /\ last[ic].result = shadowRegister[ic][a]

\* readRegister of GCONF went to the bus and returned what the chip holds,
\* while the shadow holds another value (left by a write the bus lost).
C6_Witness ==
    /\ pc[0] = "idle"
    /\ last[0].op = "readRegister" /\ last[0].address = \H00
    /\ bus[0] = << BusRead(\H00, R00) >>
    /\ shadowRegister[0][\H00] = V1
    /\ dirtyBits[0][\H00]

\* C7: whatever the permission of the address, writeRegister(icID, address,
\* v) issues one bus write of v to that address and leaves shadowValue = v
\* and dirty = true.
C7_WriteThrough ==
    \A ic \in ICs :
        (booted /\ pc[ic] = "idle" /\ last[ic].op = "writeRegister")
            => LET a == last[ic].address
                   v == last[ic].value
               IN  /\ bus[ic] = << BusWrite(a, v) >>
                   /\ shadowRegister[ic][a] = v
                   /\ dirtyBits[ic][a] = TRUE

\* writeRegister on the physically readable GCONF.
C7_Witness ==
    /\ pc[0] = "idle"
    /\ last[0] = Done("writeRegister", \H00, V2, TRUE, NoValue)
    /\ bus[0] = << BusWrite(\H00, V2) >>
    /\ shadowRegister[0][\H00] = V2
    /\ dirtyBits[0][\H00]

\* C8: a completed restore pass has issued writes only, one for each address
\* in 0..127 that is dirty with a permission other than none and for no other
\* address, in strictly ascending address order, each with the shadowValue of
\* its address.
C8_RestoreLog ==
    \A ic \in ICs :
        pc[ic] = "restored"
            => LET log == bus[ic]
               IN  /\ \A i \in DOMAIN log :
                         /\ log[i].op = "W"
                         /\ dirtyBits[ic][log[i].address]
                         /\ Listed(log[i].address) # \H00
                         /\ log[i].value = shadowRegister[ic][log[i].address]
                   /\ \A i, j \in DOMAIN log : i < j => log[i].address < log[j].address
                   /\ \A a \in Addresses :
                         (dirtyBits[ic][a] /\ Listed(a) # \H00)
                            => \E i \in DOMAIN log : log[i].address = a

\* Two dirty registers among clean, filled ones: the pass rewrote exactly
\* the two, lower address first.
C8_Witness ==
    /\ pc[0] = "restored"
    /\ dirtyBits[0][\H00] /\ dirtyBits[0][\H60]
    /\ ~dirtyBits[0][\H0A] /\ ~dirtyBits[0][\H10] /\ ~dirtyBits[0][\H61]
    /\ shadowRegister[0][\H0A] = R0A /\ shadowRegister[0][\H10] = R10
    /\ bus[0] = << BusWrite(\H00, V1), BusWrite(\H60, V2) >>

\* A step of the restore pass of some chip: its start, one rewritten
\* register, its end.
RestoreAction ==
    \E ic \in ICs : \/ RestoreStart(ic)
                    \/ \E ok \in BOOLEAN : RestoreStep(ic, ok)
                    \/ RestoreDone(ic)

\* C9: no step of a restore pass changes the shadow table or the dirty
\* table (no dirty flag is cleared, no shadow value altered), and a restore
\* pass that directly follows another one on the same chip issues the same
\* sequence of bus writes.
C9_RestoreKeepsCache ==
    /\ [][RestoreAction =>
            (shadowRegister' = shadowRegister /\ dirtyBits' = dirtyBits)]_vars
    /\ [](\A ic \in ICs :
            (pc[ic] = "restored" /\ again[ic]) => bus[ic] = prevLog[ic])

\* Restore run twice in a row on chip 0 with MSLUT[0] dirty.
C9_Witness ==
    /\ pc[0] = "restored"
    /\ again[0]
    /\ dirtyBits[0][\H60]
    /\ prevLog[0] = << BusWrite(\H60, V2) >>
    /\ bus[0] = << BusWrite(\H60, V2) >>

\* C10: when a device that held what successful writeRegister / fieldWrite
\* calls gave it is reset, and the restore pass then runs with every transfer
\* succeeding, each register with Write, ReadWrite or WriteWithHardwarePreset
\* permission holds the value it held right before the reset.
C10_Reconstruction ==
    \A ic \in ICs :
        hist[ic] = "restored"
            => \A a \in Addresses :
                  Listed(a) \in {\H02, \H03, \H42} => device[ic][a] = preReset[ic][a]

\* GCONF of chip 0 written, the chip reset, the restore pass run: the chip
\* holds the written value again, not its reset value.
C10_Witness ==
    /\ hist[0] = "restored"
    /\ pc[0] = "restored"
    /\ preReset[0][\H00] = V1
    /\ device[0][\H00] = V1
    /\ ResetValue(0, \H00) # V1

\* The value the access port takes as the content of register a of chip ic:
\* what the chip holds if the register is readable over the bus, the shadow
\* value if not.
Authoritative(ic, a) ==
    IF Listed(a) \in ReadCapable THEN device[ic][a] ELSE shadowRegister[ic][a]

\* C11: a fieldWrite(icID, F, v) step sends one bus write to F.address whose
\* payload has, outside F.mask, the bits of the authoritative register value
\* held before the step (the chip's value for a readable register, the
\* shadow value for an unreadable one) and, inside F.mask, the bits of
\* v << F.shift; the shadow of the register holds that payload afterwards.
C11_FieldWritePayload ==
    [][\A c \in FieldWriteCalls :
          FieldWrite(c[1], c[2], c[3], c[4])
             => LET ic == c[1]
                    F == c[2]
                    a == F.address
                    cur == Authoritative(ic, a)
                    log == bus'[ic]
                    sent == log[Len(log)]
                IN  /\ Len(log) >= 1
                    /\ sent.op = "W" /\ sent.address = a
                    /\ BitAnd(sent.value, BitNot(F.mask)) = BitAnd(cur, BitNot(F.mask))
                    /\ BitAnd(sent.value, F.mask) = BitAnd(Shl(c[3], F.shift), F.mask)
                    /\ Len(SelectSeq(log, LAMBDA t : t.op = "W")) = 1
                    /\ shadowRegister'[ic][a] = sent.value]_vars

\* The example: GCONF of chip 0 holds 0x00002108; fieldWrite of its bit 0 to
\* 1 read that value from the chip and sent 0x00002109.
C11_Witness ==
    /\ last[0] = Done("fieldWrite", \H00, W32(\H0000, \H0001), TRUE, V1)
    /\ bus[0] = << BusRead(\H00, R00), BusWrite(\H00, V1) >>
    /\ shadowRegister[0][\H00] = V1
    /\ device[0][\H00] = V1

\* C12: after two serialized, successful fieldWrite calls in a row to fields
\* F and G of one register with disjoint masks (F with a, then G with b),
\* the register (in the chip and in the shadow) holds a in F and b in G, and
\* its bits outside both fields are those it held before the first call.
C12_SequentialFieldWrites ==
    \A ic \in ICs :
        (/\ Len(fields[ic]) = 2
         /\ fields[ic][1].field.mask \cap fields[ic][2].field.mask = {})
            => LET F == fields[ic][1].field
                   G == fields[ic][2].field
                   a == F.address
                   rest == BitNot(BitOr(F.mask, G.mask))
               IN  /\ \A reg \in {Authoritative(ic, a), shadowRegister[ic][a]} :
                         /\ BitAnd(reg, F.mask)
                               = BitAnd(Shl(fields[ic][1].value, F.shift), F.mask)
                         /\ BitAnd(reg, G.mask)
                               = BitAnd(Shl(fields[ic][2].value, G.shift), G.mask)
                         /\ BitAnd(reg, rest) = BitAnd(fields[ic][1].before, rest)
                   /\ device[ic][a] = shadowRegister[ic][a]

\* The example: IHOLD_IRUN of chip 1 starts at zero; IRUN is set to 31, then
\* IHOLD to 10; the register ends at 0x00001F0A.
C12_Witness ==
    /\ fields[1] = << [field |-> TMC2225_IRUN_FIELD, value |-> W32(\H0000, \H001F),
                       before |-> Z],
                      [field |-> TMC2225_IHOLD_FIELD, value |-> W32(\H0000, \H000A),
                       before |-> W32(\H0000, \H1F00)] >>
    /\ device[1][\H10] = W32(\H0000, \H1F0A)
    /\ shadowRegister[1][\H10] = W32(\H0000, \H1F0A)
    /\ dirtyBits[1][\H10]

(***************************************************************************)
(* Properties of the static tables                                         *)
(***************************************************************************)
\* The addresses classified WriteWithHardwarePreset.
PresetAddresses == {a \in Addresses : Listed(a) = TMC2240_ACCESS_W_PRESET}

\* C21: tmc2240_RegisterConstants lists its addresses in strictly ascending
\* order, every address it lists is classified WriteWithHardwarePreset in
\* tmc2240_registerAccess, and every WriteWithHardwarePreset address is
\* listed; so the single ascending pass over 0..127 has, for every preset
\* address it has passed, found the constant the list gives for it, and has
\* found nothing for any other address.
C21_ConstantsTable ==
    /\ \A j \in 1 .. (Len(tmc2240_RegisterConstants) - 1) :
          tmc2240_RegisterConstants[j].address < tmc2240_RegisterConstants[j + 1].address
    /\ \A j \in DOMAIN tmc2240_RegisterConstants :
          Listed(tmc2240_RegisterConstants[j].address) = TMC2240_ACCESS_W_PRESET
    /\ \A a \in PresetAddresses : HasConstant(a)
    /\ scanI <= TMC2240_REGISTER_COUNT /\ scanJ >= 1
          => /\ DOMAIN found = {a \in PresetAddresses : a < scanI}
             /\ \A a \in DOMAIN found : found[a] = ConstantOf(a)

\* The pass is through: it has found the ten constants of 0x60..0x69.
C21_Witness ==
    /\ scanI = TMC2240_REGISTER_COUNT /\ scanJ = Len(tmc2240_RegisterConstants)
    /\ DOMAIN found = \H60 .. \H69
    /\ found[\H60] = W32(\HAAAA, \HB554)
    /\ found[\H69] = W32(\H00F7, \H0000)

\* C22: going by its entry in tmc2240_sampleRegisterPreset alone, the pass
\* can tell a hardware preset address from an address without default: the
\* entry of a preset address stands for the preset marker and nothing else,
\* the entry of any other address never for the preset marker.
C22_MarkersDistinct ==
    \A a \in DOMAIN kinds :
        IF Listed(a) = TMC2240_ACCESS_W_PRESET
        THEN kinds[a] = {"preset"}
        ELSE "preset" \notin kinds[a]

(***************************************************************************)
(* Properties of the dirty flags                                           *)
(***************************************************************************)
\* C17 as stated: in every reachable state no register whose permission is
\* read-only (0x01) is dirty.
C17_ReadOnlyNeverDirty ==
    \A ic \in ICs, a \in Addresses :
        Listed(a) = \H01 => ~dirtyBits[ic][a]

\* C17, amended: a read-only register is dirty exactly when a WRITE
\* (writeRegister, fieldWrite, or the cache WRITE) has targeted that very
\* register; fill-default and restore never mark it dirty.
C17_ReadOnlyDirtyOnlyIfWritten ==
    \A ic \in ICs, a \in Addresses :
        (booted /\ Listed(a) = \H01) => (dirtyBits[ic][a] <=> a \in wrote[ic])

\* The read-only IFCNT of chip 0 was filled, another register written and
\* the restore pass run: IFCNT holds the filled value and is not dirty.
C17_Witness ==
    /\ lastOp[0][\H02] = [op |-> "FILL_DEFAULT", value |-> V1]
    /\ shadowRegister[0][\H02] = V1
    /\ ~dirtyBits[0][\H02]
    /\ dirtyBits[0][\H00]
    /\ pc[0] = "restored"
    /\ bus[0] = << BusWrite(\H00, V2) >>

Completes(ic, op, a) == last'[ic].op = op /\ last'[ic].address = a

\* A step of a READ (cache READ, readRegister, fieldRead) or of a
\* FILL_DEFAULT (the cache operation, or the initialization pass).
ReadOrFillStep ==
    \/ \E c \in CacheReadCalls :
          Completes(c[1], "cacheRead", c[2]) /\ CacheRead(c[1], c[2])
    \/ \E c \in ReadCalls :
          Completes(c[1], "readRegister", c[2]) /\ ReadRegister(c[1], c[2])
    \/ \E c \in FieldReadCalls :
          Completes(c[1], "fieldRead", c[2].address) /\ FieldRead(c[1], c[2])
    \/ \E c \in FillCalls :
          Completes(c[1], "cacheFill", c[2]) /\ CacheFillDefault(c[1], c[2], c[3])
    \/ (last'[0].op = "initCache" /\ InitCache)

\* C19: dirty[icID][address] is true exactly when a WRITE (writeRegister,
\* fieldWrite, or the cache WRITE they go through) has targeted (icID,
\* address) since the tables were allocated; no READ and no FILL_DEFAULT
\* step changes a dirty flag (a fill of a dirty register leaves it dirty),
\* and no step of any operation, the initialization pass run again
\* included, turns a dirty flag from true to false.
C19_DirtySemantics ==
    /\ [](\A ic \in ICs, a \in Addresses :
            booted => (dirtyBits[ic][a] <=> a \in wrote[ic]))
    /\ [][ReadOrFillStep => dirtyBits' = dirtyBits]_vars
    /\ [][\A ic \in ICs, a \in Addresses :
            (booted /\ dirtyBits[ic][a]) => dirtyBits'[ic][a]]_vars

\* MSLUT[0] of chip 0 was written and then filled with a default: it holds
\* the filled value and is still dirty.
C19_Witness ==
    /\ last[0] = Done("cacheFill", \H60, V1, TRUE, NoValue)
    /\ lastOp[0][\H60] = [op |-> "FILL_DEFAULT", value |-> V1]
    /\ \H60 \in wrote[0]
    /\ shadowRegister[0][\H60] = V1
    /\ dirtyBits[0][\H60]
    /\ ~dirtyBits[0][\H00] /\ ~dirtyBits[1][\H60]

LastGiven(ic, F) ==
    LET row == fields[ic]
    IN  {row[k].value : k \in {k \in DOMAIN row :
            /\ row[k].field = F
            /\ \A n \in DOMAIN row : n > k => row[n].field.mask \cap F.mask = {}}}

\* The value last written through writeRegister or fieldWrite is in the
\* shadow: on a chip whose transfers all succeeded, not reset since, and
\* used through the access port only, every written register has
\* shadowValue equal to the value of the last bus write to its address.
MirrorsWrites ==
    \A ic \in ICs, a \in Addresses :
        (booted /\ hist[ic] = "clean" /\ a \in wrote[ic])
            => shadowRegister[ic][a] = delivered[ic][a]

\* A fieldRead step on such a chip, of a field F of a write-only register
\* for which v was last given to fieldWrite.
ReadsBack(c, v) ==
    /\ hist[c[1]] = "clean"
    /\ WriteOnly(c[2].address)
    /\ v \in LastGiven(c[1], c[2])
    /\ Completes(c[1], "fieldRead", c[2].address)
    /\ FieldRead(c[1], c[2])

\* C26 as stated: the shadow mirrors the writes, and fieldRead of a field of
\* a write-only register returns the value last given to fieldWrite for
\* that field, masked to the field width.
C26_MirrorMasked ==
    /\ []MirrorsWrites
    /\ [][\A c \in FieldReadCalls, v \in {x[3] : x \in FieldWriteCalls} :
            ReadsBack(c, v)
               => last'[c[1]].result = BitAnd(v, Shr(c[2].mask, c[2].shift))]_vars

\* C26: with the operations on a chip serialized and every bus transfer
\* succeeding, in every reachable state without a device reset in between,
\* each register written through writeRegister or fieldWrite has
\* shadowValue equal to the value last written to the device for that
\* address; hence fieldRead of a field of a write-only register returns the
\* value last given to fieldWrite for that field, masked to the field width
\* and, for a signed field, sign-extended from the top bit of the field.
C26_MirrorSignExtended ==
    /\ []MirrorsWrites
    /\ [][\A c \in FieldReadCalls, v \in {x[3] : x \in FieldWriteCalls} :
            ReadsBack(c, v)
               => LET m == BitAnd(v, Shr(c[2].mask, c[2].shift))
                  IN  IF c[2].isSigned
                      THEN AsInt32(last'[c[1]].result) = TwosComplement(m, Width(c[2]))
                      ELSE last'[c[1]].result = m]_vars

\* 0x1FE was given to fieldWrite for the signed nine-bit field of the
\* write-only MSLUT[0]; the chip and the shadow hold it in the field, and
\* fieldRead has returned -2.
C26_Witness ==
    /\ hist[0] = "clean"
    /\ fields[0] # << >>
    /\ fields[0][Len(fields[0])].field = F_MSLUT
    /\ fields[0][Len(fields[0])].value = W32(\H0000, \H01FE)
    /\ shadowRegister[0][\H60] = delivered[0][\H60]
    /\ device[0][\H60] = delivered[0][\H60]
    /\ BitAnd(shadowRegister[0][\H60], F_MSLUT.mask) = W32(\H01FE, \H0000)
    /\ last[0].op = "fieldRead" /\ last[0].address = \H60
    /\ AsInt32(last[0].result) = -2

(***************************************************************************)
(* Properties across chips                                                 *)
(***************************************************************************)
\* A step of an operation of the register layer on chip ic.
OpOn(ic) ==
    \/ \E c \in CacheReadCalls :
          c[1] = ic /\ Completes(ic, "cacheRead", c[2]) /\ CacheRead(c[1], c[2])
    \/ \E c \in CacheWriteCalls :
          c[1] = ic /\ Completes(ic, "cacheWrite", c[2]) /\ CacheWrite(c[1], c[2], c[3])
    \/ \E c \in FillCalls :
          c[1] = ic /\ Completes(ic, "cacheFill", c[2]) /\ CacheFillDefault(c[1], c[2], c[3])
    \/ \E c \in ReadCalls :
          c[1] = ic /\ Completes(ic, "readRegister", c[2]) /\ ReadRegister(c[1], c[2])
    \/ \E c \in WriteCalls :
          c[1] = ic /\ Completes(ic, "writeRegister", c[2])
                    /\ WriteRegister(c[1], c[2], c[3], c[4])
    \/ \E c \in FieldReadCalls :
          c[1] = ic /\ Completes(ic, "fieldRead", c[2].address) /\ FieldRead(c[1], c[2])
    \/ \E c \in FieldWriteCalls :
          c[1] = ic /\ Completes(ic, "fieldWrite", c[2].address)
                    /\ FieldWrite(c[1], c[2], c[3], c[4])
    \/ RestoreStart(ic)
    \/ \E ok \in BOOLEAN : RestoreStep(ic, ok)
    \/ RestoreDone(ic)

\* What a write w of tmc2240_writeRegister leaves at address a of chip o, and
\* the bus transfers it makes.
Leaves(w, o, a) == << w.shadow[o][a], w.dirty[o][a], w.device[o][a], w.bus >>

\* What the operations would return and do on chip o in the current state:
\* every register read, the addresses the restore pass would rewrite, and a
\* register write.  tmc2240_fieldRead and tmc2240_fieldWrite reach the
\* state through tmc2240_readRegister and tmc2240_writeRegister alone.
EffectsOn(o) ==
    << [a \in Addrs |-> tmc2240_readRegister(o, a)],
       ToRestore(dirtyBits, o, 0),
       [ok \in BOOLEAN |-> Leaves(tmc2240_writeRegister(o, \H60, V1, ok), o, \H60)] >>

\* C14: a step of any operation on chip ic (READ, WRITE, FILL_DEFAULT,
\* readRegister, writeRegister, fieldRead, fieldWrite, restore) leaves the
\* shadow values, the dirty flags and the device registers of every other
\* chip unchanged, and leaves unchanged what every operation on another chip
\* would return and do there: an operation on one chip and an operation on
\* another give the same result in either order.
C14_ChipIndependence ==
    [][\A ic \in ICs :
          OpOn(ic) => \A o \in ICs \ {ic} :
                         /\ shadowRegister'[o] = shadowRegister[o]
                         /\ dirtyBits'[o] = dirtyBits[o]
                         /\ device'[o] = device[o]
                         /\ EffectsOn(o)' = EffectsOn(o)]_vars

\* Chip 0 is in the middle of its restore pass, one register rewritten and
\* one still to come, and chip 1 has had its MSLUT[0] written: chip 1 holds
\* the written value, chip 0 its hardware preset, each with its own flag.
C14_Witness ==
    /\ pc[0] = "restore"
    /\ bus[0] = << BusWrite(\H00, V1) >>
    /\ last[1] = Done("writeRegister", \H60, V1, TRUE, NoValue)
    /\ shadowRegister[1][\H60] = V1 /\ dirtyBits[1][\H60]
    /\ shadowRegister[0][\H60] = ConstantOf(\H60) /\ ~dirtyBits[0][\H60]
    /\ dirtyBits[0][\H00] /\ ~dirtyBits[1][\H00]

(***************************************************************************)
(* Properties of bus transfer failures                                     *)
(***************************************************************************)
\* What a successful call can hand back to its caller: a register word from
\* int32_t tmc2240_readRegister, nothing from void tmc2240_writeRegister.
ReturnedOnSuccess(op, res) ==
    CASE op = "readRegister" -> res \subseteq BitPos
      [] op = "writeRegister" -> res = NoValue
      [] OTHER -> FALSE

\* C15: when the transport reported a failure during readRegister or
\* writeRegister, the caller got back something that no successful call
\* hands back, so it can tell the failed call from a successful one.
C15_FailureSurfaced ==
    \A ic \in ICs :
        (/\ booted /\ pc[ic] = "idle"
         /\ last[ic].op \in {"readRegister", "writeRegister"}
         /\ ~last[ic].ok)
            => ~ReturnedOnSuccess(last[ic].op, last[ic].result)

\* The last call on chip ic was a writeRegister that the bus lost.
LostWrite(ic) == last[ic].op = "writeRegister" /\ ~last[ic].ok

\* C16: a writeRegister whose bus write fails makes that one transfer and no
\* other (no retry), leaves the device registers as they were, and leaves
\* the attempted value in the shadow with dirty = true; a restore pass run
\* next issues one write of the attempted value to that address (for an
\* address whose permission is not none).
C16_CacheAhead ==
    /\ [][\A c \in WriteCalls :
            (~c[4] /\ Completes(c[1], "writeRegister", c[2])
                   /\ WriteRegister(c[1], c[2], c[3], c[4]))
               => /\ device' = device
                  /\ bus'[c[1]] = << BusWrite(c[2], c[3]) >>
                  /\ shadowRegister'[c[1]][c[2]] = c[3]
                  /\ dirtyBits'[c[1]][c[2]] = TRUE]_vars
    /\ [](\A ic \in ICs :
            (booted /\ LostWrite(ic))
               => LET a == last[ic].address
                      v == last[ic].value
                  IN  /\ shadowRegister[ic][a] = v
                      /\ dirtyBits[ic][a] = TRUE
                      /\ pc[ic] = "idle" => bus[ic] = << BusWrite(a, v) >>
                      /\ (pc[ic] = "restored" /\ Listed(a) # \H00)
                            => TransfersFor(ic, a) = << BusWrite(a, v) >>)

\* The write of 0x00002109 to GCONF of chip 0 was lost; the restore pass run
\* next has sent it again, and the chip now holds it.
C16_Witness ==
    /\ last[0] = Done("writeRegister", \H00, V1, FALSE, NoValue)
    /\ pc[0] = "restored"
    /\ bus[0] = << BusWrite(\H00, V1) >>
    /\ shadowRegister[0][\H00] = V1 /\ dirtyBits[0][\H00]
    /\ device[0][\H00] = V1

(***************************************************************************)
(* Properties of concurrent field writes                                   *)
(***************************************************************************)
\* The field of caller t holds the value t wrote, in the word reg.
UpdatePresent(t, reg) ==
    BitAnd(reg, task[t].field.mask)
        = BitAnd(Shl(task[t].value, task[t].field.shift), task[t].field.mask)

AllDone == \A t \in Callers : task[t].pc = "done"

\* C13: when each fieldWrite runs as one exclusive section (or, unserialized,
\* no caller happened to write a value it read before another caller's
\* write), both callers' field updates are in the chip's register and in
\* its shadow once both are done, and under serialization no caller ever
\* holds such an outdated value; without serialization an interleaving
\* loses one of the two updates (C13_Witness is that state).
C13_LostUpdate ==
    /\ serialized => \A t \in Callers : ~task[t].stale
    /\ (AllDone /\ \A t \in Callers : ~task[t].stale)
          => LET a == task[1].field.address
             IN  \A t \in Callers :
                    /\ UpdatePresent(t, device[0][a])
                    /\ UpdatePresent(t, shadowRegister[0][a])

\* Both callers read IHOLD_IRUN before either wrote: the register and its
\* shadow end without the update of one of them.
C13_Witness ==
    /\ AllDone
    /\ ~serialized
    /\ task[1].field = TMC2225_IRUN_FIELD
    /\ \E t \in Callers :
          /\ ~UpdatePresent(t, device[0][\H10])
          /\ ~UpdatePresent(t, shadowRegister[0][\H10])
    /\ bus[0][1].op = "R" /\ bus[0][2].op = "R"

====
